---- MODULE Spec2Model ----
\* Build orchestration of rapidbuild: the version rows of the state store (SS),
\* the BuildApp run of every version, the promote endpoint, the progress topic
\* of every version and the server process, as a state machine.
EXTENDS Integers, Sequences, FiniteSets, TLC

\* ---------------------------------------------------------------- bounds
\* number of version rows one app can get in a behaviour
MaxVersions == 1

\* concurrent create-version requests of one app in the app-history behaviours
MaxRuns == 2

\* version rows an app already has when an app-history behaviour starts
MaxPrior == 2

\* browser connections to the progress stream of a version
MaxSubscribers == 2

\* heartbeat comments one connection writes in a behaviour
MaxHeartbeats == 1

\* ------------------------------------------------------ program constants
\* the build/fix loop runs attempts 1..3 (builder.go:131, 152)
MAX_ATTEMPTS == 3

NULL == "NULL"

VersionIds == 1..MaxVersions

Statuses == {"pending", "building", "completed", "failed", "promoted"}

\* ------------------------------------------------------------ SS: versions
\* values of the updates map: Go strings and *string pointers
Str(s) == [type |-> "string", val |-> s]
StrPtr(s) == [type |-> "*string", val |-> s]

\* updates[k].(T) succeeded
Has(updates, k, t) == k \in DOMAIN updates /\ updates[k].type = t

\* SetClauses with error_message asserted as a string like the other fields
\* (a slip the *string assertion of UpdateVersion avoids)
SetClausesErrAsString(updates) ==
    (IF Has(updates, "status", "string")
        THEN <<[col |-> "status", val |-> updates["status"].val]>> ELSE <<>>)
    \o (IF Has(updates, "s3_code_path", "string")
        THEN <<[col |-> "s3_code_path", val |-> updates["s3_code_path"].val]>> ELSE <<>>)
    \o (IF Has(updates, "vercel_url", "string")
        THEN <<[col |-> "vercel_url", val |-> updates["vercel_url"].val]>> ELSE <<>>)
    \o (IF Has(updates, "vercel_deploy_id", "string")
        THEN <<[col |-> "vercel_deploy_id", val |-> updates["vercel_deploy_id"].val]>> ELSE <<>>)
    \o (IF Has(updates, "build_log", "string")
        THEN <<[col |-> "build_log", val |-> updates["build_log"].val]>> ELSE <<>>)
    \o (IF Has(updates, "error_message", "string")
        THEN <<[col |-> "error_message", val |-> updates["error_message"].val]>> ELSE <<>>)

\* the SET clauses UpdateVersion builds, as (column, value) pairs in order
SetClauses(updates) ==
    (IF Has(updates, "status", "string")
        THEN <<[col |-> "status", val |-> updates["status"].val]>> ELSE <<>>)
    \o (IF Has(updates, "s3_code_path", "string")
        THEN <<[col |-> "s3_code_path", val |-> updates["s3_code_path"].val]>> ELSE <<>>)
    \o (IF Has(updates, "vercel_url", "string")
        THEN <<[col |-> "vercel_url", val |-> updates["vercel_url"].val]>> ELSE <<>>)
    \o (IF Has(updates, "vercel_deploy_id", "string")
        THEN <<[col |-> "vercel_deploy_id", val |-> updates["vercel_deploy_id"].val]>> ELSE <<>>)
    \o (IF Has(updates, "build_log", "string")
        THEN <<[col |-> "build_log", val |-> updates["build_log"].val]>> ELSE <<>>)
    \o (IF Has(updates, "error_message", "*string")
        THEN <<[col |-> "error_message", val |-> updates["error_message"].val]>> ELSE <<>>)
    \o (IF Has(updates, "deploy_url", "string")
        THEN <<[col |-> "vercel_url", val |-> updates["deploy_url"].val]>> ELSE <<>>)
    \o (IF Has(updates, "s3_key", "string")
        THEN <<[col |-> "s3_code_path", val |-> updates["s3_key"].val]>> ELSE <<>>)

\* a column assigned twice in one UPDATE is rejected by the database
DuplicateColumn(clauses) ==
    \E i, j \in 1..Len(clauses) : i < j /\ clauses[i].col = clauses[j].col

RECURSIVE ApplyClauses(_, _)
ApplyClauses(row, clauses) ==
    IF clauses = <<>> THEN row
    ELSE ApplyClauses([row EXCEPT ![Head(clauses).col] = Head(clauses).val],
                      Tail(clauses))

\* UPDATE versions SET ... WHERE id = $n RETURNING ...: the new table and the
\* error. dbOk is the outcome of the round trip to the database (FALSE also
\* when the caller's context is already cancelled).
UpdateVersion(vs, id, updates, dbOk) ==
    LET clauses == SetClauses(updates) IN
    IF clauses = <<>> THEN [versions |-> vs, err |-> "no fields to update"]
    ELSE IF ~dbOk \/ DuplicateColumn(clauses) \/ id \notin DOMAIN vs
        THEN [versions |-> vs, err |-> "failed to update version"]
    ELSE [versions |-> [vs EXCEPT ![id] = ApplyClauses(vs[id], clauses)],
          err |-> NULL]

\* INSERT INTO versions ...: version_number = COALESCE(MAX(version_number), 0) + 1
MaxVersionNumber(vs) ==
    LET nums == {vs[i].version_number : i \in DOMAIN vs}
    IN IF nums = {} THEN 0 ELSE CHOOSE n \in nums : \A m \in nums : m <= n

NewVersionRow(maxVersion) ==
    [version_number   |-> maxVersion + 1,
     status           |-> "pending",
     s3_code_path     |-> NULL,
     vercel_url       |-> NULL,
     vercel_deploy_id |-> NULL,
     build_log        |-> NULL,
     error_message    |-> NULL]

\* the INSERT without the UNIQUE(app_id, version_number) constraint
InsertVersionNoUnique(vs, id, maxVersion) ==
    [versions |-> (id :> NewVersionRow(maxVersion)) @@ vs, err |-> NULL]

\* INSERT INTO versions ... RETURNING ...: the table rejects a second row of
\* the app with the same version_number
InsertVersion(vs, id, maxVersion) ==
    IF \E i \in DOMAIN vs : vs[i].version_number = maxVersion + 1
    THEN [versions |-> vs, err |-> "failed to create version"]
    ELSE [versions |-> (id :> NewVersionRow(maxVersion)) @@ vs, err |-> NULL]

\* --------------------------------------------------------------- state
VARIABLES
    app,          \* the app row: exists, status, prod_version
    versions,     \* version id -> version row, for the rows inserted so far
    run,          \* version id -> the BuildApp goroutine of that version
    requestOpen,  \* version id -> the creating HTTP request has not returned
    published,    \* version id -> events published on build:progress:{id}
    workspace,    \* what exists under WorkspaceDir/{appID}: "dir", "tar"
    artifacts,    \* version ids whose code.tar.gz the artifact store holds
    serverUp,     \* the server process is running
    redisClient,  \* Builder.RedisClient is configured (not nil)
    streams,      \* connection -> the SSEHandler call serving it
    disk,         \* the files packageCode and downloadFromS3 work on
    request       \* the promote request the handler last passed to the service

vars == <<app, versions, run, requestOpen, published, workspace, artifacts,
          serverUp, redisClient, streams, disk, request>>

ActivePcs == {"MarkBuilding", "Start", "SetupWorkspace", "LinkVercel",
              "RunClaude", "SaveBuildLog", "Build", "Fix", "SaveFixLog",
              "SetupDatabase", "PackageCode", "UploadToS3", "SaveS3Path",
              "DeployToVercel", "SaveVercelURL", "PublishCompleted",
              "MarkCompleted", "SetAppActive",
              "HE_Publish", "HE_Update", "HE_App"}

\* prod_version is a nullable integer column: 0 stands for NULL
NoApp == [exists |-> FALSE, status |-> NULL, prod_version |-> 0]

NoSeed == [kind |-> "none", version |-> 0]

NoRun ==
    [pc       |-> "idle",      \* idle, a pc of ActivePcs, Returned, Killed
     ctx      |-> "none",      \* the ctx argument: background or request
     attempt  |-> 1,           \* loop variable of the build/fix loop
     sub      |-> NULL,        \* result of the agent call awaiting its log write
     message  |-> NULL,        \* handleError's message argument
     err      |-> NULL,        \* handleError's err argument / buildErr
     cleanup  |-> FALSE,       \* defer b.cleanup(workspaceDir) is registered
     seed     |-> NoSeed,      \* what setupWorkspace seeded from
     calls    |-> <<>>,        \* external tools invoked so far, with outcome
     ctxErrs  |-> FALSE,       \* an operation found ctx already cancelled
     maxVersion |-> 0,         \* CreateVersion: the result of SELECT MAX
     ret      |-> NULL]        \* how BuildApp ended: nil, error, panic

\* a connection no request has arrived on yet
NoStream ==
    [pc         |-> "idle",    \* idle, Subscribing, Loop, Closed
     caller     |-> NULL,      \* user.Sub of the request, NULL without a user
     version    |-> 0,         \* mux.Vars(r)["versionId"]
     status     |-> NULL,      \* version.Status as GetVersion returned it
     from       |-> 0,         \* first event of the topic the subscription gets
     next       |-> 0,         \* next event of the topic pubsub.Channel() yields
     frames     |-> <<>>,      \* what has been written to the client
     heartbeats |-> 0,         \* ticks of the heartbeat ticker handled
     writable   |-> TRUE,      \* the write deadline of the connection has not passed
     cancel     |-> NULL,      \* disconnect: r.Context() is done; timeout: timeout.C fired
     late       |-> 0,         \* loop iterations that forwarded after the cancellation
     closedBy   |-> NULL]      \* why the handler returned

SubIds == 1..MaxSubscribers

\* no archive is being written or read
NoDisk ==
    [pc     |-> "idle",        \* idle, workspace, stored, extracted
     tree   |-> {},            \* the nodes under the workspace directory
     object |-> <<>>,          \* the tar entries of the artifact
     fs     |-> {},            \* the nodes downloadFromS3 has created
     err    |-> NULL]          \* what downloadFromS3 returned

\* no promote request has reached the service yet
NoRequest == [caller |-> NULL, appId |-> NULL]

Init ==
    /\ streams = [s \in SubIds |-> NoStream]
    /\ app = NoApp
    /\ versions = <<>>
    /\ run = [v \in VersionIds |-> NoRun]
    /\ requestOpen = [v \in VersionIds |-> FALSE]
    /\ published = [v \in VersionIds |-> <<>>]
    /\ workspace = {}
    /\ artifacts = {}
    /\ serverUp = TRUE
    /\ redisClient \in BOOLEAN
    /\ disk = NoDisk
    /\ request = NoRequest

\* ---------------------------------------------------------- contexts
\* ctx.Done() is closed: a request context is cancelled when its handler
\* has returned; context.Background() never is
CtxDone(v) == run[v].ctx = "request" /\ ~requestOpen[v]

\* outcomes of a database round trip made with the run's ctx
DbOutcomes(v) == IF CtxDone(v) THEN {FALSE} ELSE BOOLEAN

\* outcomes of exec.CommandContext(ctx, ...) under a time bound
SubOutcomes(v) == IF CtxDone(v) THEN {"fail"} ELSE {"ok", "fail", "timeout"}

Active(v) == run[v].pc \in ActivePcs

\* a goroutine entering BuildApp with the given ctx
Spawn(ctx) == [NoRun EXCEPT !.pc = "MarkBuilding", !.ctx = ctx]

\* uuid.New(): the id of the next row is fresh
FreshId(v) == v \in DOMAIN run /\ v \notin DOMAIN versions
                /\ \A u \in DOMAIN run : u < v => (u \in DOMAIN versions \/ run[u].pc = "CV_Insert")

\* ------------------------------------------------------------ API layer
\* the user the app row belongs to (apps.user_id), and another user
Owner == "owner"

Callers == {Owner, "other", NULL}

\* GetApp without the user_id = $2 condition
GetAppAnyUser(a, userID) == a.exists

\* SELECT ... FROM apps WHERE id = $1 AND user_id = $2 finds the row
GetApp(a, userID) == a.exists /\ userID = Owner

\* the id of the app row of the model, which Owner owns, and the id of an
\* app row of the user "other"
ThisApp == "app"

OtherApp == "app2"

AppIds == {ThisApp, OtherApp}

\* AppService.GetApp(ctx, appID, userID) finds a row
GetAppById(appID, userID) ==
    IF appID = ThisApp THEN GetApp(app, userID) ELSE userID = "other"

\* POST /apps: insert the app, read the owner email, insert version 1 and
\* spawn BuildApp under context.Background()
CreateApp(v) ==
    /\ serverUp
    /\ ~app.exists
    /\ FreshId(v)
    /\ app' = [exists |-> TRUE, status |-> "building", prod_version |-> 0]
    /\ \E outcome \in {"emailOrInsertFailed", "spawned"} :
        IF outcome = "spawned"
        THEN /\ versions' = InsertVersion(versions, v, MaxVersionNumber(versions)).versions
             /\ run' = [run EXCEPT ![v] = Spawn("background")]
             /\ requestOpen' = [requestOpen EXCEPT ![v] = TRUE]
        ELSE UNCHANGED <<versions, run, requestOpen>>
    /\ UNCHANGED <<published, workspace, artifacts, serverUp, redisClient, streams, disk, request>>

\* POST /apps/{appId}/versions up to the first statement of
\* VersionService.CreateVersion: SELECT COALESCE(MAX(version_number), 0)
CreateVersionSelect(v) ==
    /\ serverUp
    /\ app.exists
    /\ run[v].pc = "idle"
    /\ FreshId(v)
    /\ run' = [run EXCEPT ![v] = [NoRun EXCEPT !.pc = "CV_Insert",
                                               !.maxVersion = MaxVersionNumber(versions)]]
    /\ UNCHANGED <<app, versions, requestOpen, published, workspace, artifacts,
                   serverUp, redisClient, streams, disk, request>>

\* the rest of the handler: INSERT the version (an error ends the request
\* with a 500), submit the comments of the request and spawn BuildApp under
\* r.Context()
CreateVersion(v) ==
    /\ run[v].pc = "CV_Insert"
    /\ LET ins == InsertVersion(versions, v, run[v].maxVersion) IN
       /\ versions' = ins.versions
       /\ IF ins.err /= NULL
          THEN /\ run' = [run EXCEPT ![v] = NoRun]
               /\ UNCHANGED requestOpen
          ELSE \E outcome \in {"submitCommentsFailed", "spawned"} :
                 IF outcome = "spawned"
                 THEN /\ run' = [run EXCEPT ![v] = Spawn("request")]
                      /\ requestOpen' = [requestOpen EXCEPT ![v] = TRUE]
                 ELSE /\ run' = [run EXCEPT ![v] = NoRun]
                      /\ UNCHANGED requestOpen
    /\ UNCHANGED <<app, published, workspace, artifacts, serverUp, redisClient, streams, disk, request>>

\* the handler that created version v returns (or its client goes away):
\* net/http cancels r.Context()
RequestEnds(v) ==
    /\ requestOpen[v]
    /\ requestOpen' = [requestOpen EXCEPT ![v] = FALSE]
    /\ UNCHANGED <<app, versions, run, published, workspace, artifacts,
                   serverUp, redisClient, streams, disk, request>>

\* POST /apps/{appId}/versions/{versionId}/promote: the handler answers 401
\* without a user and 404 unless GetApp(appId, user.Sub) finds the app of the
\* path; then VersionService.PromoteVersion(versionId): GetVersion,
\* UpdateApp(version.AppID, "", prod_version), UpdateVersion(status = promoted)
PromoteVersion(v) ==
    /\ serverUp
    /\ app.exists
    /\ v \in DOMAIN versions
    /\ \E caller \in Callers \ {NULL}, appID \in AppIds :
        /\ GetAppById(appID, caller)
        /\ request' = [caller |-> caller, appId |-> appID]
    /\ \E dbOk \in BOOLEAN :
        LET u == UpdateVersion(versions, v, [status |-> Str("promoted")], dbOk)
        IN /\ app' = [app EXCEPT !.prod_version = versions[v].version_number]
           /\ versions' = u.versions
    /\ UNCHANGED <<run, requestOpen, published, workspace, artifacts,
                   serverUp, redisClient, streams, disk>>

\* the server process is killed: every goroutine stops where it is, no
\* deferred function runs, open requests are gone
Kill ==
    /\ serverUp
    /\ serverUp' = FALSE
    /\ run' = [v \in DOMAIN run |->
                IF Active(v) THEN [NoRun EXCEPT !.pc = "Killed", !.ctx = run[v].ctx]
                ELSE IF run[v].pc = "CV_Insert" THEN NoRun
                ELSE run[v]]
    /\ requestOpen' = [v \in DOMAIN run |-> FALSE]
    /\ streams' = [s \in DOMAIN streams |->
                    IF streams[s].pc \in {"Subscribing", "Loop"}
                    THEN [streams[s] EXCEPT !.pc = "Closed", !.closedBy = "killed"]
                    ELSE streams[s]]
    /\ UNCHANGED <<app, versions, published, workspace, artifacts, redisClient, disk, request>>

\* a main() that spawns BuildApp again for the runs the kill interrupted
RestartResumesBuilds ==
    /\ ~serverUp
    /\ serverUp' = TRUE
    /\ run' = [v \in DOMAIN run |->
                IF run[v].pc = "Killed" THEN Spawn("background") ELSE run[v]]
    /\ UNCHANGED <<app, versions, requestOpen, published, workspace,
                   artifacts, redisClient, streams, disk, request>>

\* main() starts again: it connects the stores and serves; it reads no
\* version row and spawns no BuildApp
Restart ==
    /\ ~serverUp
    /\ serverUp' = TRUE
    /\ UNCHANGED <<app, versions, run, requestOpen, published, workspace,
                   artifacts, redisClient, streams, disk, request>>

\* ------------------------------------------------- Builder: helpers
\* sendProgress: publish on build:progress:{versionID}; nothing is sent when
\* RedisClient is nil
sendProgressOn(topic, v, status, message) ==
    IF redisClient
    THEN [topic EXCEPT ![v] = Append(@, [status |-> status, message |-> message])]
    ELSE topic

sendProgress(v, status, message) == sendProgressOn(published, v, status, message)

\* return b.handleError(ctx, versionID, message, err): enter handleError
handleError(r, message, err) ==
    [r EXCEPT !.pc = "HE_Publish", !.message = message, !.err = err]

\* BuildApp returns: the locals of the goroutine are gone, what it called
\* and how it ended is kept
returned(r, ret) ==
    [NoRun EXCEPT !.pc = "Returned", !.ctx = r.ctx, !.calls = r.calls,
                  !.ctxErrs = r.ctxErrs, !.ret = ret]

\* an operation that takes ctx notices a cancelled ctx
WithCtx(v, r) == [r EXCEPT !.ctxErrs = @ \/ CtxDone(v)]

Called(r, op, ok) == [r EXCEPT !.calls = Append(@, [op |-> op, ok |-> ok])]

\* a cleanup that removes the directory and leaves the archive
cleanupKeepsArchive(r) == IF r.cleanup THEN workspace \ {"dir"} ELSE workspace

\* the deferred b.cleanup(workspaceDir): RemoveAll(dir), Remove(dir.tar.gz)
cleanup(r) == IF r.cleanup THEN {} ELSE workspace

\* fmt.Sprintf("apps/%s/versions/%s/code.tar.gz", appID, versionID)
S3Key(v) == "apps/app/versions/" \o ToString(v) \o "/code.tar.gz"

\* the URL deployToVercel returns: parsed from the output or the fallback
\* https://{folder}.vercel.app, never empty
DeploymentURL(v) == "https://app-" \o ToString(v) \o ".vercel.app"

\* ListVersions: the rows of the app, ORDER BY version_number DESC
RECURSIVE SortDesc(_, _)
SortDesc(vs, ids) ==
    IF ids = {} THEN <<>>
    ELSE LET top == CHOOSE i \in ids :
                      \A j \in ids : \/ vs[j].version_number < vs[i].version_number
                                     \/ (vs[j].version_number = vs[i].version_number /\ j <= i)
         IN <<[id |-> top, row |-> vs[top]]>> \o SortDesc(vs, ids \ {top})

ListVersions(vs) == SortDesc(vs, DOMAIN vs)

\* setupWorkspace: the loop for i := len(versions)-1; i >= 0; i-- stops at
\* the first completed version with a non-empty s3_code_path
SeedSource(list) ==
    LET hits == {i \in 1..Len(list) :
                    /\ list[i].row.status = "completed"
                    /\ list[i].row.s3_code_path /= NULL
                    /\ list[i].row.s3_code_path /= ""}
    IN IF hits = {} THEN [kind |-> "starter", version |-> 0]
       ELSE [kind |-> "artifact",
             version |-> list[CHOOSE i \in hits : \A j \in hits : j <= i].id]

\* the give-up test of the loop off by one: "if attempt > 3"
IsLastAttemptOffByOne(attempt) == attempt > MAX_ATTEMPTS

\* the build/fix loop: "if attempt >= 3" gives up, "attempt <= 3" loops
IsLastAttempt(attempt) == attempt >= MAX_ATTEMPTS
LoopContinues(attempt) == attempt <= MAX_ATTEMPTS

\* the error text a time-bounded tool returns
ToolError(outcome, failed, timedOut) == IF outcome = "timeout" THEN timedOut ELSE failed

\* ------------------------------------------------- Builder.BuildApp
\* UpdateVersion(status = building); a failure is only logged
MarkBuilding(v) ==
    /\ run[v].pc = "MarkBuilding"
    /\ \E dbOk \in DbOutcomes(v) :
        versions' = UpdateVersion(versions, v, [status |-> Str("building")], dbOk).versions
    /\ run' = [run EXCEPT ![v] = [WithCtx(v, run[v]) EXCEPT !.pc = "Start"]]
    /\ UNCHANGED <<app, requestOpen, published, workspace, artifacts,
                   serverUp, redisClient, streams, disk, request>>

\* time.Sleep, the first progress event, os.MkdirAll and defer b.cleanup
Start(v) ==
    /\ run[v].pc = "Start"
    /\ published' = sendProgress(v, "building", <<"Starting build process...">>)
    /\ \E ok \in BOOLEAN :
        IF ok
        THEN /\ workspace' = workspace \cup {"dir"}
             /\ run' = [run EXCEPT ![v] =
                          [run[v] EXCEPT !.pc = "SetupWorkspace", !.cleanup = TRUE]]
        ELSE /\ UNCHANGED workspace
             /\ run' = [run EXCEPT ![v] =
                          handleError(run[v], "Failed to create workspace", "mkdir failed")]
    /\ UNCHANGED <<app, versions, requestOpen, artifacts, serverUp, redisClient, streams, disk, request>>

\* setupWorkspace: ListVersions, then downloadFromS3 or copyStarterCode;
\* "if err != nil || len(versions) == 0" takes the starter code when the
\* lookup failed
SetupWorkspace(v) ==
    /\ run[v].pc = "SetupWorkspace"
    /\ published' = sendProgress(v, "building", <<"Setting up workspace...">>)
    /\ \E dbOk \in DbOutcomes(v), copied \in BOOLEAN :
        LET r    == Called(WithCtx(v, run[v]), "ListVersions", dbOk)
            list == IF dbOk THEN ListVersions(versions) ELSE <<>>
            src  == SeedSource(list)
            ok   == copied /\ (src.kind = "artifact" => ~CtxDone(v))
        IN run' = [run EXCEPT ![v] =
                     IF ok THEN [r EXCEPT !.pc = "LinkVercel", !.seed = src]
                     ELSE handleError(r, "Failed to setup workspace",
                                      IF src.kind = "artifact"
                                      THEN "download from S3 failed"
                                      ELSE "failed to copy starter code")]
    /\ UNCHANGED <<app, versions, requestOpen, workspace, artifacts,
                   serverUp, redisClient, streams, disk, request>>

\* linkVercel: vercel link -y, 2 minutes
LinkVercel(v) ==
    /\ run[v].pc = "LinkVercel"
    /\ published' = sendProgress(v, "building", <<"Linking Vercel project...">>)
    /\ \E outcome \in SubOutcomes(v) :
        LET r == Called(WithCtx(v, run[v]), "linkVercel", outcome = "ok")
        IN run' = [run EXCEPT ![v] =
                     IF outcome = "ok" THEN [r EXCEPT !.pc = "RunClaude"]
                     ELSE handleError(r, "Failed to link Vercel project",
                            ToolError(outcome, "Vercel link failed",
                                      "Vercel link timed out after 2 minutes"))]
    /\ UNCHANGED <<app, versions, requestOpen, workspace, artifacts,
                   serverUp, redisClient, streams, disk, request>>

\* runClaude up to cmd.Run(): the agent with the prompt, 6 hours
RunClaude(v) ==
    /\ run[v].pc = "RunClaude"
    /\ published' = sendProgress(v, "building", <<"Running AI code generation...">>)
    /\ \E outcome \in SubOutcomes(v) :
        run' = [run EXCEPT ![v] =
                  [Called(WithCtx(v, run[v]), "runClaude", outcome = "ok")
                     EXCEPT !.pc = "SaveBuildLog", !.sub = outcome]]
    /\ UNCHANGED <<app, versions, requestOpen, workspace, artifacts,
                   serverUp, redisClient, streams, disk, request>>

\* runClaude after cmd.Run(): UpdateVersion(build_log) with the error
\* dropped, then the agent's result decides
SaveBuildLog(v) ==
    /\ run[v].pc = "SaveBuildLog"
    /\ \E dbOk \in DbOutcomes(v) :
        versions' = UpdateVersion(versions, v, [build_log |-> Str("agent")], dbOk).versions
    /\ run' = [run EXCEPT ![v] =
                 IF run[v].sub = "ok"
                 THEN [WithCtx(v, run[v]) EXCEPT !.pc = "Build", !.sub = NULL, !.attempt = 1]
                 ELSE handleError([WithCtx(v, run[v]) EXCEPT !.sub = NULL],
                        "AI code generation failed",
                        ToolError(run[v].sub, "Claude execution failed",
                                  "Claude execution timed out after 6 hours"))]
    /\ UNCHANGED <<app, requestOpen, published, workspace, artifacts,
                   serverUp, redisClient, streams, disk, request>>

\* one iteration of the build/fix loop up to the call of fixBuildErrors
Build(v) ==
    /\ run[v].pc = "Build"
    /\ \E outcome \in SubOutcomes(v) :
        LET attempt  == run[v].attempt
            first    == sendProgress(v, "building",
                          IF attempt = 1 THEN <<"Building with Vercel...">>
                          ELSE <<"Retrying build (attempt %d/3)...", ToString(attempt)>>)
            r        == Called(WithCtx(v, run[v]), "buildForVercel", outcome = "ok")
            buildErr == ToolError(outcome, "vercel build output",
                                  "Vercel build timed out after 10 minutes")
        IN IF outcome = "ok"
           THEN /\ published' = first
                /\ run' = [run EXCEPT ![v] = [r EXCEPT !.pc = "SetupDatabase"]]
           ELSE IF IsLastAttempt(attempt)
           THEN /\ published' = first
                /\ run' = [run EXCEPT ![v] =
                             handleError(r, "Build failed after 3 attempts", buildErr)]
           ELSE /\ published' = sendProgressOn(first, v, "building",
                       <<"Build failed (attempt %d/3), Claude is fixing errors...",
                         ToString(attempt)>>)
                /\ run' = [run EXCEPT ![v] = [r EXCEPT !.pc = "Fix", !.err = buildErr]]
    /\ UNCHANGED <<app, versions, requestOpen, workspace, artifacts,
                   serverUp, redisClient, streams, disk, request>>

\* fixBuildErrors up to cmd.Run(): the agent with the repair prompt
Fix(v) ==
    /\ run[v].pc = "Fix"
    /\ \E outcome \in SubOutcomes(v) :
        run' = [run EXCEPT ![v] =
                  [Called(WithCtx(v, run[v]), "fixBuildErrors", outcome = "ok")
                     EXCEPT !.pc = "SaveFixLog", !.sub = outcome, !.err = NULL]]
    /\ UNCHANGED <<app, versions, requestOpen, published, workspace, artifacts,
                   serverUp, redisClient, streams, disk, request>>

\* fixBuildErrors after cmd.Run(): UpdateVersion(build_log) with the error
\* dropped; on success the loop increments attempt and tests attempt <= 3
SaveFixLog(v) ==
    /\ run[v].pc = "SaveFixLog"
    /\ \E dbOk \in DbOutcomes(v) :
        versions' = UpdateVersion(versions, v,
                       [build_log |-> Str("repair " \o ToString(run[v].attempt))],
                       dbOk).versions
    /\ run' = [run EXCEPT ![v] =
                 IF run[v].sub = "ok"
                 THEN [WithCtx(v, run[v]) EXCEPT
                         !.pc = IF LoopContinues(run[v].attempt + 1)
                                THEN "Build" ELSE "SetupDatabase",
                         !.sub = NULL, !.attempt = @ + 1]
                 ELSE handleError([WithCtx(v, run[v]) EXCEPT !.sub = NULL],
                        "Claude failed to fix build errors",
                        ToolError(run[v].sub, "Claude failed to fix errors",
                                  "Claude fix timed out after 6 hours"))]
    /\ UNCHANGED <<app, requestOpen, published, workspace, artifacts,
                   serverUp, redisClient, streams, disk, request>>

\* the optional schema bootstrap: only when the agent left a schemas/
\* directory; its failure is a warning
SetupDatabase(v) ==
    /\ run[v].pc = "SetupDatabase"
    /\ \E schemas \in BOOLEAN, outcome \in SubOutcomes(v) :
        IF schemas
        THEN /\ published' = sendProgress(v, "building", <<"Setting up database schema...">>)
             /\ run' = [run EXCEPT ![v] =
                          [Called(WithCtx(v, run[v]), "setupDatabase", outcome = "ok")
                             EXCEPT !.pc = "PackageCode"]]
        ELSE /\ outcome = "fail"
             /\ UNCHANGED published
             /\ run' = [run EXCEPT ![v] = [run[v] EXCEPT !.pc = "PackageCode"]]
    /\ UNCHANGED <<app, versions, requestOpen, workspace, artifacts,
                   serverUp, redisClient, streams, disk, request>>

\* packageCode: os.Create(dir.tar.gz), then the walk of the workspace
PackageCode(v) ==
    /\ run[v].pc = "PackageCode"
    /\ published' = sendProgress(v, "building", <<"Packaging code...">>)
    /\ \E outcome \in {"ok", "createFailed", "walkFailed"} :
        /\ workspace' = IF outcome = "createFailed" THEN workspace
                        ELSE workspace \cup {"tar"}
        /\ run' = [run EXCEPT ![v] =
                     IF outcome = "ok" THEN [run[v] EXCEPT !.pc = "UploadToS3"]
                     ELSE handleError(run[v], "Failed to package code", "tar failed")]
    /\ UNCHANGED <<app, versions, requestOpen, artifacts, serverUp, redisClient, streams, disk, request>>

\* uploadToS3: PutObject(ctx) under apps/{app}/versions/{version}/code.tar.gz
UploadToS3(v) ==
    /\ run[v].pc = "UploadToS3"
    /\ published' = sendProgress(v, "building", <<"Uploading to S3...">>)
    /\ \E ok \in DbOutcomes(v) :
        IF ok
        THEN /\ artifacts' = artifacts \cup {v}
             /\ run' = [run EXCEPT ![v] = [WithCtx(v, run[v]) EXCEPT !.pc = "SaveS3Path"]]
        ELSE /\ UNCHANGED artifacts
             /\ run' = [run EXCEPT ![v] =
                          handleError(WithCtx(v, run[v]), "Failed to upload to S3",
                                      "put object failed")]
    /\ UNCHANGED <<app, versions, requestOpen, workspace, serverUp, redisClient, streams, disk, request>>

\* UpdateVersion(s3_code_path) with its error only logged, as the write of
\* status = building does
SaveS3PathErrorDropped(v) ==
    /\ run[v].pc = "SaveS3Path"
    /\ \E dbOk \in DbOutcomes(v) :
        versions' = UpdateVersion(versions, v, [s3_code_path |-> Str(S3Key(v))],
                                  dbOk).versions
    /\ run' = [run EXCEPT ![v] = [WithCtx(v, run[v]) EXCEPT !.pc = "DeployToVercel"]]
    /\ UNCHANGED <<app, requestOpen, published, workspace, artifacts,
                   serverUp, redisClient, streams, disk, request>>

\* UpdateVersion(s3_code_path)
SaveS3Path(v) ==
    /\ run[v].pc = "SaveS3Path"
    /\ \E dbOk \in DbOutcomes(v) :
        LET u == UpdateVersion(versions, v, [s3_code_path |-> Str(S3Key(v))], dbOk)
        IN /\ versions' = u.versions
           /\ run' = [run EXCEPT ![v] =
                        IF u.err = NULL THEN [WithCtx(v, run[v]) EXCEPT !.pc = "DeployToVercel"]
                        ELSE handleError(WithCtx(v, run[v]), "Failed to update S3 path", u.err)]
    /\ UNCHANGED <<app, requestOpen, published, workspace, artifacts,
                   serverUp, redisClient, streams, disk, request>>

\* deployToVercel (10 minutes), then the attempt to disable the deployment
\* protection, whose failure is only logged
DeployToVercel(v) ==
    /\ run[v].pc = "DeployToVercel"
    /\ published' = sendProgress(v, "building", <<"Deploying to Vercel...">>)
    /\ \E outcome \in SubOutcomes(v), relaxed \in BOOLEAN :
        LET r == Called(WithCtx(v, run[v]), "deployToVercel", outcome = "ok")
        IN run' = [run EXCEPT ![v] =
                     IF outcome = "ok"
                     THEN [Called(r, "DisableDeploymentProtection", relaxed)
                             EXCEPT !.pc = "SaveVercelURL"]
                     ELSE handleError(r, "Failed to deploy to Vercel",
                            ToolError(outcome, "Vercel deployment failed",
                                      "Vercel deployment timed out after 10 minutes"))]
           /\ (outcome /= "ok" => relaxed)
    /\ UNCHANGED <<app, versions, requestOpen, workspace, artifacts,
                   serverUp, redisClient, streams, disk, request>>

\* UpdateVersion(vercel_url, vercel_deploy_id)
SaveVercelURL(v) ==
    /\ run[v].pc = "SaveVercelURL"
    /\ \E dbOk \in DbOutcomes(v) :
        LET u == UpdateVersion(versions, v,
                    [vercel_url       |-> Str(DeploymentURL(v)),
                     vercel_deploy_id |-> Str(ToString(v))], dbOk)
        IN /\ versions' = u.versions
           /\ run' = [run EXCEPT ![v] =
                        IF u.err = NULL THEN [WithCtx(v, run[v]) EXCEPT !.pc = "PublishCompleted"]
                        ELSE handleError(WithCtx(v, run[v]), "Failed to update Vercel URL", u.err)]
    /\ UNCHANGED <<app, requestOpen, published, workspace, artifacts,
                   serverUp, redisClient, streams, disk, request>>

\* a BuildApp without the sendProgress(completed) call
PublishCompletedSilent(v) ==
    /\ run[v].pc = "PublishCompleted"
    /\ run' = [run EXCEPT ![v] = [run[v] EXCEPT !.pc = "MarkCompleted"]]
    /\ UNCHANGED <<app, versions, requestOpen, published, workspace, artifacts,
                   serverUp, redisClient, streams, disk, request>>

\* sendProgress(completed), before the status is written
PublishCompleted(v) ==
    /\ run[v].pc = "PublishCompleted"
    /\ published' = sendProgress(v, "completed", <<"Build completed successfully!">>)
    /\ run' = [run EXCEPT ![v] = [run[v] EXCEPT !.pc = "MarkCompleted"]]
    /\ UNCHANGED <<app, versions, requestOpen, workspace, artifacts,
                   serverUp, redisClient, streams, disk, request>>

\* UpdateVersion(status = completed)
MarkCompleted(v) ==
    /\ run[v].pc = "MarkCompleted"
    /\ \E dbOk \in DbOutcomes(v) :
        LET u == UpdateVersion(versions, v, [status |-> Str("completed")], dbOk)
        IN /\ versions' = u.versions
           /\ run' = [run EXCEPT ![v] =
                        IF u.err = NULL THEN [WithCtx(v, run[v]) EXCEPT !.pc = "SetAppActive"]
                        ELSE handleError(WithCtx(v, run[v]), "Failed to mark as completed", u.err)]
    /\ UNCHANGED <<app, requestOpen, published, workspace, artifacts,
                   serverUp, redisClient, streams, disk, request>>

\* UpdateApp(status = active) whose failure is treated like the failure of a
\* status write: handleError
SetAppActiveFatal(v) ==
    /\ run[v].pc = "SetAppActive"
    /\ \E dbOk \in DbOutcomes(v) :
        LET r == Called(WithCtx(v, run[v]), "UpdateApp", dbOk)
        IN IF dbOk
           THEN /\ app' = [app EXCEPT !.status = "active"]
                /\ workspace' = cleanup(run[v])
                /\ run' = [run EXCEPT ![v] = returned(r, "nil")]
           ELSE /\ UNCHANGED <<app, workspace>>
                /\ run' = [run EXCEPT ![v] =
                             handleError(r, "Failed to update app status", "update failed")]
    /\ UNCHANGED <<versions, requestOpen, published, artifacts, serverUp, redisClient, streams, disk, request>>

\* UpdateApp(status = active), a warning when it fails; return nil, which
\* runs the deferred cleanup
SetAppActive(v) ==
    /\ run[v].pc = "SetAppActive"
    /\ \E dbOk \in DbOutcomes(v) :
        /\ app' = IF dbOk THEN [app EXCEPT !.status = "active"] ELSE app
        /\ run' = [run EXCEPT ![v] =
                     returned(Called(WithCtx(v, run[v]), "UpdateApp", dbOk), "nil")]
    /\ workspace' = cleanup(run[v])
    /\ UNCHANGED <<versions, requestOpen, published, artifacts, serverUp, redisClient, streams, disk, request>>

\* ------------------------------------------------ Builder.handleError
\* sendProgress(failed, message: err)
HE_Publish(v) ==
    /\ run[v].pc = "HE_Publish"
    /\ published' = sendProgress(v, "failed", <<run[v].message, run[v].err>>)
    /\ run' = [run EXCEPT ![v] = [run[v] EXCEPT !.pc = "HE_Update"]]
    /\ UNCHANGED <<app, versions, requestOpen, workspace, artifacts,
                   serverUp, redisClient, streams, disk, request>>

\* UpdateVersion(status = failed, error_message = &errMsg); a failure is
\* only logged
HE_Update(v) ==
    /\ run[v].pc = "HE_Update"
    /\ \E dbOk \in DbOutcomes(v) :
        versions' = UpdateVersion(versions, v,
                       [status        |-> Str("failed"),
                        error_message |-> StrPtr(run[v].err)], dbOk).versions
    /\ run' = [run EXCEPT ![v] = [WithCtx(v, run[v]) EXCEPT !.pc = "HE_App"]]
    /\ UNCHANGED <<app, requestOpen, published, workspace, artifacts,
                   serverUp, redisClient, streams, disk, request>>

\* GetVersion, UpdateApp(status = error) when it succeeded, return the
\* error, which runs the deferred cleanup
HE_App(v) ==
    /\ run[v].pc = "HE_App"
    /\ \E getOk \in DbOutcomes(v), appOk \in DbOutcomes(v) :
        app' = IF getOk /\ appOk THEN [app EXCEPT !.status = "error"] ELSE app
    /\ workspace' = cleanup(run[v])
    /\ run' = [run EXCEPT ![v] = returned(WithCtx(v, run[v]), "error")]
    /\ UNCHANGED <<versions, requestOpen, published, artifacts, serverUp, redisClient, streams, disk, request>>

\* a panic anywhere in BuildApp: the deferred cleanup runs, then the
\* recover handler writes status = failed with "Build panic: ..."
Panic(v) ==
    /\ Active(v)
    /\ \E dbOk \in DbOutcomes(v) :
        versions' = UpdateVersion(versions, v,
                       [status        |-> Str("failed"),
                        error_message |-> StrPtr("Build panic")], dbOk).versions
    /\ workspace' = cleanup(run[v])
    /\ run' = [run EXCEPT ![v] = returned(WithCtx(v, run[v]), "panic")]
    /\ UNCHANGED <<app, requestOpen, published, artifacts, serverUp, redisClient, streams, disk, request>>

\* ------------------------------------------------------ specification
BuildStep(v) ==
    \/ MarkBuilding(v) \/ Start(v) \/ SetupWorkspace(v) \/ LinkVercel(v)
    \/ RunClaude(v) \/ SaveBuildLog(v) \/ Build(v) \/ Fix(v) \/ SaveFixLog(v)
    \/ SetupDatabase(v) \/ PackageCode(v) \/ UploadToS3(v) \/ SaveS3Path(v)
    \/ DeployToVercel(v) \/ SaveVercelURL(v) \/ PublishCompleted(v)
    \/ MarkCompleted(v) \/ SetAppActive(v)
    \/ HE_Publish(v) \/ HE_Update(v) \/ HE_App(v)

Next ==
    \/ \E v \in DOMAIN run :
        \/ CreateApp(v) \/ CreateVersionSelect(v) \/ CreateVersion(v) \/ RequestEnds(v)
        \/ PromoteVersion(v) \/ BuildStep(v) \/ Panic(v)
    \/ Kill
    \/ Restart

Spec == Init /\ [][Next]_vars

\* ------------------------------------- an app with a history of versions
\* The API layer and BuildApp up to the seeding of the workspace, for an app
\* that already has version rows: MaxRuns create-version requests run
\* concurrently on top of up to MaxPrior earlier rows.
RunIds == 1..MaxRuns

PriorIds == {MaxRuns + i : i \in 1..MaxPrior}

\* the row an earlier BuildApp run (and the promote endpoint) left behind:
\* the artifact key is written before the URL, completed after both
PriorRow(id, number, status, stored) ==
    [version_number   |-> number,
     status           |-> status,
     s3_code_path     |-> IF stored THEN S3Key(id) ELSE NULL,
     vercel_url       |-> IF stored /\ status \in {"completed", "promoted"}
                          THEN DeploymentURL(id) ELSE NULL,
     vercel_deploy_id |-> IF stored /\ status \in {"completed", "promoted"}
                          THEN ToString(id) ELSE NULL,
     build_log        |-> IF status = "pending" THEN NULL ELSE "agent",
     error_message    |-> IF status = "failed" THEN "vercel build output" ELSE NULL]

\* rows numbered 1..n, as CreateVersion numbers them
PriorTables ==
    UNION {
      { [id \in {MaxRuns + i : i \in 1..n} |->
            PriorRow(id, id - MaxRuns, shape[id - MaxRuns].status,
                     shape[id - MaxRuns].stored)] :
        shape \in [1..n -> {sh \in [status : Statuses, stored : BOOLEAN] :
                              sh.status = "completed" => sh.stored}] }
      : n \in 0..MaxPrior }

InitApp ==
    /\ streams = [s \in SubIds |-> NoStream]
    /\ app = [exists |-> TRUE, status |-> "active", prod_version |-> 0]
    /\ versions \in PriorTables
    /\ run = [v \in RunIds |-> NoRun]
    /\ requestOpen = [v \in RunIds |-> FALSE]
    /\ published = [v \in RunIds |-> <<>>]
    /\ workspace = {}
    /\ artifacts = {id \in DOMAIN versions : versions[id].s3_code_path /= NULL}
    /\ serverUp = TRUE
    /\ redisClient \in BOOLEAN
    /\ disk = NoDisk
    /\ request = NoRequest

NextApp ==
    \E v \in DOMAIN run :
        \/ CreateVersionSelect(v) \/ CreateVersion(v) \/ RequestEnds(v)
        \/ MarkBuilding(v) \/ Start(v) \/ SetupWorkspace(v)

SpecApp == InitApp /\ [][NextApp]_vars

\* the create-version requests alone: every interleaving of the two
\* statements of VersionService.CreateVersion of MaxRuns concurrent requests
NextCreate ==
    \E v \in DOMAIN run : CreateVersionSelect(v) \/ CreateVersion(v)

SpecCreate == InitApp /\ [][NextCreate]_vars

\* --------------------------------------------- progress stream (SSEHandler)
\* if version.Status == "completed" || version.Status == "failed" with only
\* the first test
AlreadyFinishedOnlyCompleted(status) == status = "completed"

\* if version.Status == "completed" || version.Status == "failed"
AlreadyFinished(status) == status \in {"completed", "failed"}

\* a channel that hands over the newest message of the topic
ReceiveNewest(topic, next) == topic[Len(topic)]

\* msg := <-ch: the channel of the subscription yields the messages
\* published on the topic since the subscription, oldest first
Receive(topic, next) == topic[next]

\* the loop without the return after a terminal event
IsTerminalEventNever(status) == FALSE

\* if progress.Status == "completed" || progress.Status == "failed" { return }
IsTerminalEvent(status) == status \in {"completed", "failed"}

DataFrame(status, message) == [kind |-> "data", status |-> status, message |-> message]

HeartbeatFrame == [kind |-> "comment", status |-> "heartbeat", message |-> <<>>]

\* fmt.Fprintf(w, ...) and Flush: nothing reaches the client once the write
\* deadline of the connection has passed, and the error is not looked at
Write(st, frame) ==
    IF st.writable /\ st.cancel /= "disconnect"
    THEN [st EXCEPT !.frames = Append(@, frame)] ELSE st

\* one iteration of the loop that took the message or the heartbeat case
Iterate(st) == IF st.cancel /= NULL THEN [st EXCEPT !.late = @ + 1] ELSE st

Close(st, why) == [st EXCEPT !.pc = "Closed", !.closedBy = why]

\* GET /versions/{versionId}/progress up to pubsub := Subscribe(...): the
\* user of the request is looked up, the version is read once, its app is
\* read for that user, and only then are the headers and frames written
SSEConnect(s, v) ==
    /\ serverUp
    /\ streams[s].pc = "idle"
    /\ v \in DOMAIN versions
    /\ \E caller \in Callers :
       LET st == [streams[s] EXCEPT !.caller = caller, !.version = v] IN
       streams' = [streams EXCEPT ![s] =
          IF caller = NULL
          THEN Close(st, "unauthorized")
          ELSE IF ~GetApp(app, caller)
          THEN Close(st, "notFound")
          ELSE LET own == [st EXCEPT !.status = versions[v].status] IN
          IF AlreadyFinished(own.status)
          THEN Close(Write(own, DataFrame(own.status, <<"Build ", own.status>>)), "synthetic")
          ELSE IF ~redisClient
          THEN Close(Write(Write(own, DataFrame("connected", <<>>)),
                           DataFrame("error", <<"Redis not configured">>)), "error")
          ELSE [Write(own, DataFrame("connected", <<>>)) EXCEPT !.pc = "Subscribing"]]
    /\ UNCHANGED <<app, versions, run, requestOpen, published, workspace,
                   artifacts, serverUp, redisClient, disk, request>>

\* the event bus registers the subscription and pubsub.Receive returns the
\* confirmation, or an error
SSESubscribe(s) ==
    /\ streams[s].pc = "Subscribing"
    /\ \E ok \in BOOLEAN :
        streams' = [streams EXCEPT ![s] =
          IF ok
          THEN [streams[s] EXCEPT !.pc = "Loop",
                                  !.from = Len(published[streams[s].version]) + 1,
                                  !.next = Len(published[streams[s].version]) + 1]
          ELSE Close(Write(streams[s], DataFrame("error", <<"Failed to subscribe">>)),
                     "error")]
    /\ UNCHANGED <<app, versions, run, requestOpen, published, workspace,
                   artifacts, serverUp, redisClient, disk, request>>

\* case msg := <-ch: forward the event, return after a terminal one
SSEForward(s) ==
    /\ streams[s].pc = "Loop"
    /\ streams[s].next <= Len(published[streams[s].version])
    /\ LET msg == Receive(published[streams[s].version], streams[s].next)
           st  == [Iterate(Write(streams[s], DataFrame(msg.status, msg.message)))
                     EXCEPT !.next = @ + 1]
       IN streams' = [streams EXCEPT ![s] =
                        IF IsTerminalEvent(msg.status) THEN Close(st, "terminal") ELSE st]
    /\ UNCHANGED <<app, versions, run, requestOpen, published, workspace,
                   artifacts, serverUp, redisClient, disk, request>>

\* case <-heartbeat.C: the only write whose error ends the handler
SSEHeartbeat(s) ==
    /\ streams[s].pc = "Loop"
    /\ IF streams[s].writable /\ streams[s].cancel /= "disconnect"
       THEN /\ streams[s].heartbeats < MaxHeartbeats
            /\ streams' = [streams EXCEPT ![s] =
                             [Iterate(Write(streams[s], HeartbeatFrame))
                                EXCEPT !.heartbeats = @ + 1]]
       ELSE streams' = [streams EXCEPT ![s] = Close(streams[s], "writeError")]
    /\ UNCHANGED <<app, versions, run, requestOpen, published, workspace,
                   artifacts, serverUp, redisClient, disk, request>>

\* the client goes away while another case of the select is ready: the
\* context of the request is cancelled
SSEClientGone(s) ==
    /\ streams[s].pc \in {"Subscribing", "Loop"}
    /\ streams[s].cancel = NULL
    /\ streams' = [streams EXCEPT ![s] = [streams[s] EXCEPT !.cancel = "disconnect"]]
    /\ UNCHANGED <<app, versions, run, requestOpen, published, workspace,
                   artifacts, serverUp, redisClient, disk, request>>

\* the timer of 10 hours created before the loop fires while another case of
\* the select is ready
SSECeiling(s) ==
    /\ streams[s].pc = "Loop"
    /\ streams[s].cancel = NULL
    /\ streams' = [streams EXCEPT ![s] = [streams[s] EXCEPT !.cancel = "timeout"]]
    /\ UNCHANGED <<app, versions, run, requestOpen, published, workspace,
                   artifacts, serverUp, redisClient, disk, request>>

\* case <-r.Context().Done(): select takes this case, either as one of the
\* cases that are ready or when the client goes away while the loop waits
SSEDisconnect(s) ==
    /\ streams[s].pc = "Loop"
    /\ streams[s].cancel \in {NULL, "disconnect"}
    /\ streams' = [streams EXCEPT ![s] =
                     Close([streams[s] EXCEPT !.cancel = "disconnect"], "disconnect")]
    /\ UNCHANGED <<app, versions, run, requestOpen, published, workspace,
                   artifacts, serverUp, redisClient, disk, request>>

\* case <-timeout.C: select takes this case, either as one of the cases
\* that are ready or when the timer fires while the loop waits
SSETimeout(s) ==
    /\ streams[s].pc = "Loop"
    /\ streams[s].cancel \in {NULL, "timeout"}
    /\ streams' = [streams EXCEPT ![s] =
                     Close([streams[s] EXCEPT !.cancel = "timeout"], "timeout")]
    /\ UNCHANGED <<app, versions, run, requestOpen, published, workspace,
                   artifacts, serverUp, redisClient, disk, request>>

\* http.Server{WriteTimeout: 15 * time.Second}: the write deadline of the
\* connection, set when the request was read, passes
SSEWriteDeadline(s) ==
    /\ streams[s].pc \in {"Subscribing", "Loop"}
    /\ streams[s].writable
    /\ streams' = [streams EXCEPT ![s] = [streams[s] EXCEPT !.writable = FALSE]]
    /\ UNCHANGED <<app, versions, run, requestOpen, published, workspace,
                   artifacts, serverUp, redisClient, disk, request>>

\* The progress streams of one build. The behaviours start when the first
\* build of an app has stored its artifact (one agent call, one prebuild, no
\* schema) and follow it to its end, with the connections arriving at any
\* time.
HappyPrefix ==
    << [status |-> "building", message |-> <<"Starting build process...">>],
       [status |-> "building", message |-> <<"Setting up workspace...">>],
       [status |-> "building", message |-> <<"Linking Vercel project...">>],
       [status |-> "building", message |-> <<"Running AI code generation...">>],
       [status |-> "building", message |-> <<"Building with Vercel...">>],
       [status |-> "building", message |-> <<"Packaging code...">>],
       [status |-> "building", message |-> <<"Uploading to S3...">>] >>

Uploaded ==
    /\ redisClient \in BOOLEAN
    /\ disk = NoDisk
    /\ request = NoRequest
    /\ app = [exists |-> TRUE, status |-> "building", prod_version |-> 0]
    /\ versions = (1 :> [NewVersionRow(0) EXCEPT !.status = "building",
                                                !.build_log = "agent",
                                                !.s3_code_path = S3Key(1)])
    /\ run = [v \in VersionIds |->
                IF v = 1
                THEN [NoRun EXCEPT
                        !.pc = "DeployToVercel", !.ctx = "background", !.cleanup = TRUE,
                        !.seed = [kind |-> "starter", version |-> 0],
                        !.calls = << [op |-> "ListVersions", ok |-> TRUE],
                                     [op |-> "linkVercel", ok |-> TRUE],
                                     [op |-> "runClaude", ok |-> TRUE],
                                     [op |-> "buildForVercel", ok |-> TRUE] >>]
                ELSE NoRun]
    /\ requestOpen = [v \in VersionIds |-> FALSE]
    /\ published = [v \in VersionIds |->
                      IF v = 1 /\ redisClient THEN HappyPrefix ELSE <<>>]
    /\ workspace = {"dir", "tar"}
    /\ artifacts = {1}
    /\ serverUp = TRUE

InitSSE ==
    /\ streams = [s \in SubIds |-> NoStream]
    /\ Uploaded

NextSSE ==
    \/ \E v \in DOMAIN run :
        \/ DeployToVercel(v) \/ SaveVercelURL(v)
        \/ PublishCompleted(v) \/ MarkCompleted(v) \/ SetAppActive(v)
        \/ HE_Publish(v) \/ HE_Update(v) \/ HE_App(v)
    \/ \E s \in DOMAIN streams :
        \/ \E v \in DOMAIN run : SSEConnect(s, v)
        \/ SSESubscribe(s) \/ SSEForward(s) \/ SSEHeartbeat(s)
        \/ SSEDisconnect(s) \/ SSETimeout(s) \/ SSEWriteDeadline(s)

SpecSSE == InitSSE /\ [][NextSSE]_vars

\* One progress stream and the end of the build, with the cancellation
\* signals arriving at any time: select takes any of the cases that are
\* ready. The promote endpoint may be called for the version meanwhile.
InitCancel ==
    /\ streams = [s \in {1} |-> NoStream]
    /\ Uploaded

NextCancel ==
    \/ NextSSE
    \/ \E s \in DOMAIN streams : SSEClientGone(s) \/ SSECeiling(s)
    \/ \E v \in DOMAIN run : PromoteVersion(v)

SpecCancel == InitCancel /\ [][NextCancel]_vars

\* ------------------------------------- the artifact: packageCode, downloadFromS3
\* Both functions applied to bounded inputs: packageCode to workspace trees
\* of at most MaxNodes files and directories, downloadFromS3 to the archive
\* packageCode produced and to archives of at most MaxEntries entries whose
\* names may contain "..".

\* files and directories in a workspace tree
MaxNodes == 3

\* entries in an archive that packageCode did not write
MaxEntries == 2

\* excludeDirs of packageCode
excludeDirs == {"node_modules", ".vercel", ".agent-history", "dist", ".git", ".next"}

\* the file names used in the trees, in the lexical order in which
\* filepath.Walk visits the entries of a directory
NameOrder == <<".git", "dist", "src">>

Names == {NameOrder[i] : i \in DOMAIN NameOrder}

\* paths relative to the workspace directory, as sequences of segments
TreePaths == {<<a>> : a \in Names} \cup {<<a, b>> : a, b \in Names}

Nodes == [path : TreePaths, dir : BOOLEAN]

\* filepath.Dir
Dir(path) == SubSeq(path, 1, Len(path) - 1)

\* one node per path, and every node below the top lies in a directory
WellFormed(tree) ==
    /\ \A n, m \in tree : n.path = m.path => n = m
    /\ \A n \in tree : Len(n.path) > 1 => [path |-> Dir(n.path), dir |-> TRUE] \in tree

Trees ==
    {tree \in {{f[i] : i \in 1..MaxNodes} : f \in [1..MaxNodes -> Nodes]} :
        WellFormed(tree)}

\* an exclusion test on the name of the entry itself, at any depth
ExcludedAnySegment(relPath) == \E i \in DOMAIN relPath : relPath[i] \in excludeDirs

\* parts := strings.Split(relPath, sep); len(parts) > 0 && excludeDirs[parts[0]]
Excluded(relPath) == Len(relPath) > 0 /\ relPath[1] \in excludeDirs

\* filepath.Walk below path with the callback of packageCode: an excluded
\* directory returns SkipDir and is not descended into, an excluded file
\* returns nil; any other entry gets a header named by its relative path
RECURSIVE WalkNames(_, _, _)
WalkNames(tree, path, i) ==
    IF i > Len(NameOrder) THEN <<>>
    ELSE LET p    == Append(path, NameOrder[i])
             here == {n \in tree : n.path = p}
             n    == CHOOSE n \in here : TRUE
             rest == WalkNames(tree, path, i + 1)
         IN IF here = {} \/ Excluded(p) THEN rest
            ELSE <<[name |-> p, dir |-> n.dir]>>
                   \o (IF n.dir THEN WalkNames(tree, p, 1) ELSE <<>>)
                   \o rest

\* packageCode: the entries written to workspaceDir.tar.gz
packageCode(tree) == WalkNames(tree, <<>>, 1)

\* filepath.Join(b.Config.WorkspaceDir, appID)
Root == <<"workspaces", "app">>

\* what exists before the extraction: the root and the directories above it
BaseDirs == {[path |-> SubSeq(Root, 1, k), dir |-> TRUE] : k \in 0..Len(Root)}

\* filepath.Clean: ".." removes the segment before it, and nothing at "/"
RECURSIVE Clean(_, _)
Clean(done, rest) ==
    IF rest = <<>> THEN done
    ELSE IF Head(rest) = ".."
    THEN Clean(IF done = <<>> THEN <<>> ELSE Dir(done), Tail(rest))
    ELSE Clean(Append(done, Head(rest)), Tail(rest))

\* filepath.Join(workspaceDir, header.Name)
Join(dir, name) == Clean(<<>>, dir \o name)

IsFile(fs, path) == [path |-> path, dir |-> FALSE] \in fs
IsDir(fs, path) == [path |-> path, dir |-> TRUE] \in fs

\* os.MkdirAll(target, 0755) with its error dropped: nothing is made when
\* a file is in the way
MkdirAll(fs, target) ==
    IF \E k \in 0..Len(target) : IsFile(fs, SubSeq(target, 1, k)) THEN fs
    ELSE fs \cup {[path |-> SubSeq(target, 1, k), dir |-> TRUE] : k \in 0..Len(target)}

\* os.Create(target) succeeds in an existing directory, on a path that is
\* not a directory
CanCreate(fs, target) ==
    /\ target /= <<>>
    /\ IsDir(fs, Dir(target))
    /\ ~IsDir(fs, target)

\* downloadFromS3 from the first tr.Next() on: every entry is written at
\* Join(workspaceDir, header.Name); a file that cannot be created ends the
\* extraction with the error
RECURSIVE Extract(_, _)
Extract(fs, entries) ==
    IF entries = <<>> THEN [fs |-> fs, err |-> NULL]
    ELSE LET target == Join(Root, Head(entries).name) IN
         IF Head(entries).dir THEN Extract(MkdirAll(fs, target), Tail(entries))
         ELSE IF CanCreate(fs, target)
         THEN Extract(fs \cup {[path |-> target, dir |-> FALSE]}, Tail(entries))
         ELSE [fs |-> fs, err |-> "create failed"]

downloadFromS3(object) == Extract(BaseDirs, object)

\* entry names as a foreign archive may carry them
EntryNames == {<<a>> : a \in {"src", ".."}} \cup {<<a, b>> : a, b \in {"src", ".."}}

Archives == UNION {[1..n -> [name : EntryNames, dir : BOOLEAN]] : n \in 1..MaxEntries}

\* packageCode(workspaceDir) on the tree of the workspace
PackageCodeWalk ==
    /\ disk.pc = "workspace"
    /\ disk' = [disk EXCEPT !.pc = "stored", !.object = packageCode(disk.tree)]
    /\ UNCHANGED <<app, versions, run, requestOpen, published, workspace,
                   artifacts, serverUp, redisClient, streams, request>>

\* downloadFromS3(ctx, s3Path, workspaceDir) on the stored object, into the
\* fresh workspace directory of the next build
DownloadFromS3 ==
    /\ disk.pc = "stored"
    /\ LET r == downloadFromS3(disk.object)
       IN disk' = [disk EXCEPT !.pc = "extracted", !.fs = r.fs, !.err = r.err]
    /\ UNCHANGED <<app, versions, run, requestOpen, published, workspace,
                   artifacts, serverUp, redisClient, streams, request>>

InitArchive ==
    /\ streams = [s \in SubIds |-> NoStream]
    /\ app = NoApp
    /\ versions = <<>>
    /\ run = [v \in VersionIds |-> NoRun]
    /\ requestOpen = [v \in VersionIds |-> FALSE]
    /\ published = [v \in VersionIds |-> <<>>]
    /\ workspace = {}
    /\ artifacts = {}
    /\ serverUp = TRUE
    /\ redisClient = TRUE
    /\ \/ \E tree \in Trees : disk = [NoDisk EXCEPT !.pc = "workspace", !.tree = tree]
       \/ \E object \in Archives : disk = [NoDisk EXCEPT !.pc = "stored", !.object = object]
    /\ request = NoRequest

NextArchive == PackageCodeWalk \/ DownloadFromS3

SpecArchive == InitArchive /\ [][NextArchive]_vars

\* =================================================================
\* Properties
\* =================================================================
Created == DOMAIN versions

Terminal == {"completed", "failed", "promoted"}

LegalTransitions == {<<"pending", "building">>, <<"building", "completed">>,
                     <<"building", "failed">>, <<"completed", "promoted">>}

CallsOf(v, op) == {i \in 1..Len(run[v].calls) : run[v].calls[i].op = op}

HasEvent(v, status) == \E i \in 1..Len(published[v]) : published[v][i].status = status

\* C1: the stored status of a version changes only along pending->building,
\* building->completed, building->failed or completed->promoted.
C1_OnlyLegalTransitions ==
    [][\A v \in Created :
          versions'[v].status /= versions[v].status
            => <<versions[v].status, versions'[v].status>> \in LegalTransitions]_vars

\* C2: once the stored status of a version is completed, failed or promoted,
\* its row is not changed any more, except that the promote endpoint turns
\* completed into promoted.
C2_TerminalSticky ==
    [][\A v \in Created :
          versions[v].status \in Terminal
            => \/ versions'[v] = versions[v]
               \/ /\ versions[v].status = "completed"
                  /\ versions'[v] = [versions[v] EXCEPT !.status = "promoted"]
                  /\ run'[v] = run[v]]_vars

\* C3: a completed version has an artifact key and a deployment URL, and a
\* version with a deployment URL has an artifact key.
C3_ArtifactUrlCoherence ==
    \A v \in Created :
        /\ versions[v].status = "completed"
             => versions[v].s3_code_path /= NULL /\ versions[v].vercel_url /= NULL
        /\ versions[v].vercel_url /= NULL => versions[v].s3_code_path /= NULL

\* a build that went through: completed, with both fields stored
C3_Witness ==
    \E v \in Created :
        /\ run[v].ret = "nil"
        /\ versions[v].status = "completed"
        /\ versions[v].s3_code_path = S3Key(v)
        /\ versions[v].vercel_url = DeploymentURL(v)

\* C4: a failed version has an error_message.
C4_FailedHasErrorMessage ==
    \A v \in Created :
        versions[v].status = "failed" => versions[v].error_message /= NULL

\* handleError has written the row of a run that returned an error
C4_Witness ==
    \E v \in Created :
        /\ run[v].ret = "error"
        /\ versions[v].status = "failed"
        /\ versions[v].error_message /= NULL

\* C5: a run invokes the prebuild at most MAX_ATTEMPTS times and the repair
\* agent at most MAX_ATTEMPTS - 1 times, and every repair directly follows a
\* failed prebuild that was not the last attempt.
C5_RepairLoopBound ==
    \A v \in VersionIds :
        /\ Cardinality(CallsOf(v, "buildForVercel")) <= MAX_ATTEMPTS
        /\ Cardinality(CallsOf(v, "fixBuildErrors")) <= MAX_ATTEMPTS - 1
        /\ \A i \in CallsOf(v, "fixBuildErrors") :
              /\ i > 1
              /\ run[v].calls[i - 1] = [op |-> "buildForVercel", ok |-> FALSE]
              /\ Cardinality({j \in CallsOf(v, "buildForVercel") : j < i}) < MAX_ATTEMPTS

\* a run whose three prebuilds all ran, with the two repairs between them
C5_Witness ==
    \E v \in VersionIds :
        /\ Cardinality(CallsOf(v, "buildForVercel")) = MAX_ATTEMPTS
        /\ Cardinality(CallsOf(v, "fixBuildErrors")) = MAX_ATTEMPTS - 1

\* C6: a run that ended in a panic leaves its version failed with an
\* error_message, and a failed event on the topic of the version.
C6_PanicSafety ==
    \A v \in Created :
        run[v].ret = "panic"
          => /\ versions[v].status = "failed"
             /\ versions[v].error_message /= NULL
             /\ (redisClient => HasEvent(v, "failed"))

\* C7: no version stays in building forever when the server is killed in
\* the middle of a build and started again. Only the BuildApp run of a
\* version writes completed or failed to it and main() spawns no run, so
\* once the server is up again a version whose run was killed must not be
\* building.
C7_NoBuildingAfterRestart ==
    \A v \in Created :
        ~(serverUp /\ run[v].pc = "Killed" /\ versions[v].status = "building")

\* C8: the end of the HTTP request that created a version cancels no
\* operation of the BuildApp run of that version.
C8_RunOutlivesRequest ==
    \A v \in VersionIds : ~run[v].ctxErrs

\* C9: when BuildApp has returned an error, the version is failed with an
\* error_message and a failed event has been published.
C9_ErrorReturnMeansFailed ==
    \A v \in Created :
        run[v].ret = "error"
          => /\ versions[v].status = "failed"
             /\ versions[v].error_message /= NULL
             /\ (redisClient => HasEvent(v, "failed"))

\* C10: when a completed event is on the topic of a version, the stored
\* status of that version is completed or promoted.
C10_CompletedEventAfterWrite ==
    \A v \in Created :
        HasEvent(v, "completed") => versions[v].status \in {"completed", "promoted"}

\* the steps whose failure is only a warning, and where a run is after each
WarningOps == {"setupDatabase", "DisableDeploymentProtection", "UpdateApp"}

AfterWarningStep(op) ==
    IF op = "setupDatabase" THEN "PackageCode"
    ELSE IF op = "DisableDeploymentProtection" THEN "SaveVercelURL"
    ELSE "Returned"

FailedWarnings(v) ==
    {run[v].calls[i].op : i \in {j \in 1..Len(run[v].calls) :
                                    /\ run[v].calls[j].op \in WarningOps
                                    /\ ~run[v].calls[j].ok}}

\* C11: a failure of the schema bootstrap, of the protection relaxation or of
\* the app-status update after completion leaves the version row as it is and
\* lets the run go on exactly as their success does; a run that returned nil
\* has a completed (or since then promoted) version, whatever warnings failed.
C11_WarningIsolation ==
    /\ [](\A v \in Created :
            run[v].ret = "nil" => versions[v].status \in {"completed", "promoted"})
    /\ [][\A v \in Created :
            LET n == Len(run'[v].calls) IN
            (n > Len(run[v].calls) /\ run'[v].calls[n].op \in WarningOps)
              => /\ versions'[v] = versions[v]
                 /\ run'[v].pc = AfterWarningStep(run'[v].calls[n].op)
                 /\ (run'[v].pc = "Returned" => run'[v].ret = "nil")]_vars

\* a run in which all three warning steps failed returned nil, version completed
C11_Witness ==
    \E v \in Created :
        /\ FailedWarnings(v) = WarningOps
        /\ run[v].ret = "nil"
        /\ versions[v].status = "completed"

\* the prior versions a new build may be seeded from, and the latest of them
Seedable(vs) ==
    {i \in DOMAIN vs : vs[i].status = "completed" /\ vs[i].s3_code_path /= NULL}

LatestSeedable(vs) ==
    CHOOSE i \in Seedable(vs) :
        \A j \in Seedable(vs) : vs[j].version_number <= vs[i].version_number

\* C12: when setupWorkspace seeds the workspace from an artifact, it is the
\* artifact of the completed version with the greatest version_number among
\* the versions of the app that are completed and have an artifact key.
C12_SeedsFromLatest ==
    [][\A v \in DOMAIN run :
          (/\ run[v].pc = "SetupWorkspace"
           /\ run'[v].pc = "LinkVercel"
           /\ run'[v].seed.kind = "artifact")
            => run'[v].seed.version = LatestSeedable(versions)]_vars

\* C13: at no time are two BuildApp runs of the app executing (all versions
\* of a behaviour belong to one app, whose workspace directory they share).
C13_NoConcurrentBuilds ==
    \A u, v \in DOMAIN run : (Active(u) /\ Active(v)) => u = v

Ended(v) == run[v].pc \in {"Returned", "Killed"}

\* C14: BuildApp is entered for a version only in the step that inserts the
\* row of that version, so at most once per version; a run that has ended is
\* never started again, whatever the status of its version (failed too).
C14_OneRunPerVersion ==
    [][\A v \in DOMAIN run :
          /\ (run'[v].pc = "MarkBuilding" /\ run[v].pc /= "MarkBuilding")
               => (v \notin DOMAIN versions /\ v \in DOMAIN versions')
          /\ Ended(v) => run'[v] = run[v]]_vars

\* the run of a failed version has returned its error and the app is marked
C14_Witness ==
    \E v \in Created :
        /\ versions[v].status = "failed"
        /\ run[v].pc = "Returned"
        /\ app.status = "error"

\* C15: every row a create-version request inserts gets version_number
\* 1 + the greatest version_number the app has at the insertion, and no two
\* rows of the app share a version_number, however the SELECT MAX and INSERT
\* statements of concurrent requests interleave.
C15_VersionNumbering ==
    /\ [](\A i, j \in DOMAIN versions :
            versions[i].version_number = versions[j].version_number => i = j)
    /\ [][\A v \in DOMAIN versions' \ DOMAIN versions :
            versions'[v].version_number = MaxVersionNumber(versions) + 1]_vars

\* two concurrent requests read the same maximum and one of them has
\* inserted its row: the INSERT of the other meets the UNIQUE constraint
C15_Witness ==
    \E u, v \in DOMAIN run :
        /\ u /= v
        /\ u \in DOMAIN versions
        /\ run[v].pc = "CV_Insert"
        /\ run[v].maxVersion + 1 = versions[u].version_number

\* C16: a step sets the status of a version to promoted, or the app's
\* prod_version to the number of a version, only when the stored status of
\* that version is completed.
C16_PromoteOnlyFromCompleted ==
    [][/\ \A v \in Created :
            (versions'[v].status = "promoted" /\ versions[v].status /= "promoted")
              => versions[v].status = "completed"
       /\ app'.prod_version /= app.prod_version
            => \E v \in Created : /\ versions[v].status = "completed"
                                  /\ app'.prod_version = versions[v].version_number]_vars

\* the frames of a connection that carry an event of the topic
IsProgressFrame(f) == f.kind = "data" /\ f.status \in {"building", "completed", "failed"}

ProgressFrames(s) == SelectSeq(streams[s].frames, IsProgressFrame)

Subscribed(s) == streams[s].from > 0

\* the client of the connection has disconnected
ClientGone(s) == streams[s].cancel = "disconnect"

\* the handler answered with RespondError before any header of the stream
Refused(s) == streams[s].closedBy \in {"unauthorized", "notFound"}

\* the events of the topic of s from its subscription on, up to and
\* including the first terminal one
UpToTerminal(s) ==
    LET topic == published[streams[s].version]
        ends  == {i \in streams[s].from..Len(topic) :
                    topic[i].status \in {"completed", "failed"}}
        last  == IF ends = {} THEN Len(topic)
                 ELSE CHOOSE i \in ends : \A j \in ends : i <= j
    IN [i \in 1..(last - streams[s].from + 1) |->
          DataFrame(topic[streams[s].from + i - 1].status,
                    topic[streams[s].from + i - 1].message)]

\* C17: the progress frames a subscriber has written are, in order, the
\* events published on the topic of its version starting with the first one
\* after its subscription: none is reordered, repeated or left out, and every
\* event it has taken from the channel is written while the connection is
\* writable and its client is there.
C17_ProgressOrdering ==
    \A s \in DOMAIN streams :
        Subscribed(s) =>
            LET pf    == ProgressFrames(s)
                topic == published[streams[s].version]
                from  == streams[s].from
            IN /\ Len(pf) <= streams[s].next - from
               /\ (streams[s].writable /\ ~ClientGone(s))
                     => Len(pf) = streams[s].next - from
               /\ \A i \in 1..Len(pf) :
                     pf[i] = DataFrame(topic[from + i - 1].status,
                                       topic[from + i - 1].message)

\* a subscriber has forwarded a building event and then the terminal event
C17_Witness ==
    \E s \in DOMAIN streams :
        /\ Subscribed(s)
        /\ Len(ProgressFrames(s)) >= 2
        /\ ProgressFrames(s)[1].status = "building"
        /\ streams[s].closedBy = "terminal"

\* C18: a subscriber whose handler has returned for another reason than the
\* disconnect of its client (or the 10-hour ceiling) has written every event
\* published on the topic since its subscription, up to and including the
\* terminal event, and returned because of that event.
C18_ProgressBroadcast ==
    \A s \in DOMAIN streams :
        (/\ Subscribed(s)
         /\ streams[s].pc = "Closed"
         /\ ~ClientGone(s)
         /\ streams[s].closedBy \notin {"disconnect", "timeout"})
          => /\ streams[s].closedBy = "terminal"
             /\ ProgressFrames(s) = UpToTerminal(s)

\* a connection whose handler has returned has written a terminal frame
C19_ExactlyOneTerminalFrame ==
    \A s \in DOMAIN streams :
        streams[s].pc = "Closed"
          => Cardinality({i \in 1..Len(streams[s].frames) :
                            /\ streams[s].frames[i].kind = "data"
                            /\ streams[s].frames[i].status \in {"completed", "failed"}}) = 1

\* C19: a connection gets at most one frame with status completed or failed;
\* that frame is the last thing written to it and the handler has returned.
C19_TerminalFrameIsLast ==
    \A s \in DOMAIN streams :
        \A i \in 1..Len(streams[s].frames) :
            (/\ streams[s].frames[i].kind = "data"
             /\ streams[s].frames[i].status \in {"completed", "failed"})
              => /\ i = Len(streams[s].frames)
                 /\ streams[s].pc = "Closed"

\* after a heartbeat and an event the terminal event closed the stream, and
\* the build has published a second terminal event since
C19_Witness ==
    \E s \in DOMAIN streams :
        /\ streams[s].closedBy = "terminal"
        /\ streams[s].heartbeats > 0
        /\ Len(published[streams[s].version]) >= streams[s].next

\* C20: a connection that found its version completed or failed has written
\* exactly one frame, with that status, has not subscribed and is closed; any
\* other connection has written connected first and nowhere else, and is in
\* the event loop only with a confirmed subscription.
C20_OnConnect ==
    \A s \in DOMAIN streams :
        (streams[s].pc /= "idle" /\ ~Refused(s)) =>
            IF streams[s].status \in {"completed", "failed"}
            THEN /\ streams[s].frames =
                      <<DataFrame(streams[s].status, <<"Build ", streams[s].status>>)>>
                 /\ ~Subscribed(s)
                 /\ streams[s].pc = "Closed"
            ELSE /\ streams[s].frames /= <<>>
                 /\ \A i \in 1..Len(streams[s].frames) :
                       streams[s].frames[i].status = "connected" <=> i = 1
                 /\ streams[s].pc = "Loop" => Subscribed(s)

\* one connection found the version failed, another is in the event loop
C20_Witness ==
    \E s, t \in DOMAIN streams :
        /\ streams[s].status = "failed"
        /\ streams[s].closedBy = "synthetic"
        /\ streams[t].pc = "Loop"
        /\ streams[t].frames[1].status = "connected"

\* C21: a request for the progress stream of a version whose caller is not
\* the user owning the version's app is answered with an error: nothing of
\* the stream is written to it, it never subscribes to the topic and never
\* forwards an event; only connections of the owner carry frames.
C21_AccessControl ==
    \A s \in DOMAIN streams :
        /\ (streams[s].pc /= "idle" /\ streams[s].caller /= Owner)
              => /\ Refused(s)
                 /\ streams[s].pc = "Closed"
                 /\ streams[s].frames = <<>>
                 /\ ~Subscribed(s)
                 /\ streams[s].next = 0
        /\ streams[s].frames /= <<>> => streams[s].caller = Owner

\* another user was refused while the owner's connection forwards events
C21_Witness ==
    \E s, t \in DOMAIN streams :
        /\ streams[s].caller = "other"
        /\ streams[s].closedBy = "notFound"
        /\ streams[t].caller = Owner
        /\ Len(ProgressFrames(t)) > 0

\* C22: the write time-out of the server does not reach a progress stream:
\* a subscribed connection stays writable, and its handler returns only
\* because of a terminal event, the disconnect of the client or the 10-hour
\* ceiling.
C22_NoWriteTimeoutOnStream ==
    \A s \in DOMAIN streams :
        Subscribed(s) =>
            /\ streams[s].writable
            /\ (streams[s].pc = "Closed" /\ ~ClientGone(s))
                  => streams[s].closedBy \in {"terminal", "timeout"}

\* C23: whenever a BuildApp that has created the workspace directory (and so
\* registered the deferred cleanup) ends, by return nil, by handleError
\* after any phase or by a panic, neither the directory nor its archive
\* exists afterwards.
C23_WorkspaceDestroyed ==
    [][\A v \in DOMAIN run :
         (run[v].cleanup /\ run'[v].pc = "Returned") => workspace' = {}]_vars

\* a run that had packaged and uploaded the archive ended through
\* handleError after a failed deploy, and nothing is left
C23_Witness ==
    \E v \in DOMAIN run :
        /\ run[v].pc = "Returned"
        /\ run[v].ret = "error"
        /\ \E i \in DOMAIN run[v].calls :
              run[v].calls[i] = [op |-> "deployToVercel", ok |-> FALSE]
        /\ workspace = {}

\* the prebuild was run MAX_ATTEMPTS times by the run of v and failed each time
AllAttemptsFailed(v) ==
    /\ Cardinality(CallsOf(v, "buildForVercel")) = MAX_ATTEMPTS
    /\ \A i \in CallsOf(v, "buildForVercel") : ~run[v].calls[i].ok

\* the texts "Build failed after 3 attempts: " followed by what the last
\* prebuild returned
GaveUpMessages ==
    {"Build failed after 3 attempts" \o ": " \o out :
        out \in {"vercel build output", "Vercel build timed out after 10 minutes"}}

\* C24: when the prebuild has failed on all three attempts, BuildApp has
\* returned its error and the version has been written failed, its error_message begins with "Build failed
\* after 3 attempts" and goes on with the output of the last prebuild, and
\* the last event published for it has status failed.
C24_GaveUpErrorMessage ==
    \A v \in Created :
        (/\ run[v].pc = "Returned"
         /\ run[v].ret = "error"
         /\ AllAttemptsFailed(v)
         /\ versions[v].status = "failed")
          => /\ versions[v].error_message \in GaveUpMessages
             /\ published[v] /= <<>>
                   => published[v][Len(published[v])].status = "failed"

\* BuildApp returned nil with an event-bus client, after one prebuild and
\* with every tool call and every write succeeding
HappyPath(v) ==
    /\ redisClient
    /\ run[v].pc = "Returned"
    /\ run[v].ret = "nil"
    /\ Cardinality(CallsOf(v, "buildForVercel")) = 1
    /\ \A i \in DOMAIN run[v].calls : run[v].calls[i].ok

Transcripts == {"agent", "vercel build output", "repair 1"}

RECURSIVE JoinLines(_)
JoinLines(parts) ==
    IF Len(parts) = 1 THEN parts[1]
    ELSE parts[1] \o "\n" \o JoinLines(Tail(parts))

\* the logs made of transcripts that contain all the required ones
LogsContaining(required) ==
    {JoinLines(parts) :
        parts \in {q \in UNION {[1..n -> Transcripts] : n \in 1..Cardinality(Transcripts)} :
                      required \subseteq {q[i] : i \in DOMAIN q}}}

\* the prebuild of the run of v failed on attempt 1 and succeeded on attempt 2
FailedOnceThenBuilt(v) ==
    \E i, j \in CallsOf(v, "buildForVercel") :
        /\ CallsOf(v, "buildForVercel") = {i, j}
        /\ i < j
        /\ ~run[v].calls[i].ok
        /\ run[v].calls[j].ok

\* the build_log write made after the repair reached the store
RepairLogStored(v) == versions[v].build_log \notin {NULL, "agent"}

\* C26: after a build whose prebuild failed on attempt 1 and succeeded on
\* attempt 2 (and whose log write after the repair was stored), the stored
\* build_log contains the output of the failed prebuild and the transcript
\* of the repair agent.
C26_BuildLogKeepsBoth ==
    \A v \in Created :
        (/\ run[v].pc = "Returned" /\ run[v].ret = "nil"
         /\ FailedOnceThenBuilt(v)
         /\ RepairLogStored(v))
          => versions[v].build_log \in LogsContaining({"vercel build output", "repair 1"})

\* C27: downloadFromS3 creates nothing outside the workspace root: an entry
\* whose path, normalized against the root, leaves the root is rejected.
C27_ExtractionStaysInside ==
    \A n \in disk.fs \ BaseDirs :
        /\ Len(n.path) > Len(Root)
        /\ SubSeq(n.path, 1, Len(Root)) = Root

\* the entries of the archive packageCode wrote
EntryNamesOf(object) == {object[i].name : i \in DOMAIN object}

\* C28: the archive packageCode writes has no entry whose first path segment
\* is in the exclusion set, and has exactly one entry, named by its path
\* relative to the workspace root, for every other file and directory of
\* the workspace.
C28_ExclusionSet ==
    (disk.pc /= "workspace" /\ disk.tree /= {}) =>
        /\ \A i \in DOMAIN disk.object : disk.object[i].name[1] \notin excludeDirs
        /\ \A n \in disk.tree :
              n.path[1] \notin excludeDirs
                => \E i \in DOMAIN disk.object :
                      /\ disk.object[i] = [name |-> n.path, dir |-> n.dir]
                      /\ \A j \in DOMAIN disk.object :
                            disk.object[j].name = n.path => j = i
        /\ \A i \in DOMAIN disk.object :
              [path |-> disk.object[i].name, dir |-> disk.object[i].dir] \in disk.tree

\* a workspace with a top-level dist and a src/dist has been packaged: the
\* first is left out, the second is in the archive
C28_Witness ==
    /\ disk.pc = "stored"
    /\ \E n \in disk.tree : n.path = <<"dist">>
    /\ \E i \in DOMAIN disk.object : disk.object[i].name = <<"src", "dist">>

\* the initial agent invocation of the run of v failed
AgentFailed(v) ==
    \E i \in DOMAIN run[v].calls : run[v].calls[i] = [op |-> "runClaude", ok |-> FALSE]

\* nothing was invoked after the agent call: no prebuild, repair, schema
\* bootstrap or deploy call, no archive, no stored artifact
NothingAfterAgent(v) ==
    /\ run[v].calls[Len(run[v].calls)].op = "runClaude"
    /\ "tar" \notin workspace
    /\ v \notin artifacts
    /\ run[v].pc \in {"SaveBuildLog", "HE_Publish", "HE_Update", "HE_App", "Returned"}

\* C29: once the initial agent invocation has failed, no prebuild, repair,
\* schema bootstrap, packaging, upload or deploy is invoked, and when
\* BuildApp has returned its error the version is failed.
C29_AgentFailureFailsBuild ==
    \A v \in Created :
        AgentFailed(v) =>
            /\ NothingAfterAgent(v)
            /\ (run[v].pc = "Returned" /\ run[v].ret = "error")
                  => versions[v].status = "failed"

\* the errors the time-bounded phases return when their time is up
TimeoutErrors ==
    {"Vercel link timed out after 2 minutes",
     "Claude execution timed out after 6 hours",
     "Vercel build timed out after 10 minutes",
     "Claude fix timed out after 6 hours",
     "Vercel deployment timed out after 10 minutes"}

\* C30: when the time bound of a phase (link, agent, prebuild on any
\* attempt, repair, deploy) has expired, BuildApp is failing the version
\* with that phase's time-out error: it is in handleError with the error,
\* which it publishes in a failed event and stores as error_message with
\* status failed.
C30_TimeoutIsFailureReason ==
    \A v \in Created :
        run[v].err \in TimeoutErrors =>
            /\ run[v].pc \in {"HE_Publish", "HE_Update", "HE_App"}
            /\ (run[v].pc /= "HE_Publish" /\ redisClient)
                  => published[v][Len(published[v])] =
                       [status |-> "failed", message |-> <<run[v].message, run[v].err>>]

\* the lookup of the prior versions failed in the run of v
LookupFailed(v) ==
    \E i \in DOMAIN run[v].calls : run[v].calls[i] = [op |-> "ListVersions", ok |-> FALSE]

\* C31: when ListVersions has failed during the seeding of the workspace,
\* the build is failing: BuildApp is in handleError or has returned, the
\* workspace was seeded from no source and nothing was invoked afterwards.
C31_LookupFailureFailsBuild ==
    \A v \in DOMAIN run :
        LookupFailed(v) =>
            /\ run[v].seed.kind = "none"
            /\ run[v].pc \in {"HE_Publish", "HE_Update", "HE_App", "Returned"}
            /\ run[v].calls[Len(run[v].calls)].op = "ListVersions"

\* C32: a step that publishes the first event of a version, "Starting build
\* process...", is taken with status building stored for the version; no
\* event is published for a version whose row is still pending.
C32_MarkBuildingPrecedesProgress ==
    [][\A v \in Created :
         (published[v] = <<>> /\ published'[v] /= <<>>)
           => /\ published'[v][1].message = <<"Starting build process...">>
              /\ versions[v].status = "building"]_vars

\* C33: after the client has disconnected or the 10-hour ceiling has fired,
\* the event loop forwards at most one more event or heartbeat before it
\* returns.
C33_CancellationWithinOneIteration ==
    \A s \in DOMAIN streams : streams[s].late <= 1

\* C34: every data frame written to a client has a status among connected,
\* building, completed and failed, and every event published on a topic has
\* a status among building, completed and failed.
C34_FrameStatuses ==
    /\ \A s \in DOMAIN streams :
          \A i \in DOMAIN streams[s].frames :
              streams[s].frames[i].kind = "data"
                => streams[s].frames[i].status \in
                     {"connected", "building", "completed", "failed"}
    /\ \A v \in DOMAIN published :
          \A i \in DOMAIN published[v] :
              published[v][i].status \in {"building", "completed", "failed"}

\* the transcript of the last agent invocation of the run of v: the n-th
\* repair when there were repairs, the initial invocation otherwise
LastTranscript(v) ==
    IF CallsOf(v, "fixBuildErrors") = {} THEN "agent"
    ELSE "repair " \o ToString(Cardinality(CallsOf(v, "fixBuildErrors")))

\* C35: when BuildApp has returned after at least one agent invocation, the
\* stored build_log of the version is the transcript of the last agent
\* invocation of the run.
C35_BuildLogHasLastTranscript ==
    \A v \in Created :
        (/\ run[v].pc = "Returned"
         /\ run[v].ret \in {"nil", "error"}
         /\ CallsOf(v, "runClaude") /= {})
          => versions[v].build_log = LastTranscript(v)

\* the connection s waits in the event loop with nothing left to receive:
\* the run of its version has returned and every event published since the
\* subscription has been taken
NothingToReceive(s) ==
    /\ streams[s].pc = "Loop"
    /\ run[streams[s].version].pc = "Returned"
    /\ streams[s].next > Len(published[streams[s].version])

\* C36: a connection that found its version pending or building and whose
\* client stays connected writes the terminal event of the build: it is
\* never left waiting in the event loop, with nothing more to come, for a
\* terminal event that was published before its subscription was confirmed.
C36_TerminalEventNotMissed ==
    \A s \in DOMAIN streams :
        (NothingToReceive(s) /\ ~ClientGone(s))
          => \A i \in DOMAIN published[streams[s].version] :
                published[streams[s].version][i].status \in {"completed", "failed"}
                  => i >= streams[s].from

\* the positions of the terminal events on the topic of v
TerminalEvents(v) ==
    {i \in DOMAIN published[v] : published[v][i].status \in {"completed", "failed"}}

\* no failed event follows a completed event on the topic of v
NoFailedAfterCompleted(v) ==
    \A i, j \in TerminalEvents(v) :
        (i < j /\ published[v][i].status = "completed")
          => published[v][j].status /= "failed"

\* C37: when BuildApp has returned (with an event-bus client), exactly one
\* terminal event has been published for its version and it is the last
\* event of the topic; no failed event follows a completed event.
C37_OneTerminalEvent ==
    \A v \in Created :
        /\ NoFailedAfterCompleted(v)
        /\ (redisClient /\ run[v].pc = "Returned")
              => TerminalEvents(v) = {Len(published[v])}

\* C38: creating a version is all-or-nothing with respect to spawning the
\* build: every inserted version row that is still pending has had BuildApp
\* spawned for it; no request leaves a pending row without a run.
C38_PendingRowHasRun ==
    \A v \in Created :
        versions[v].status = "pending" => run[v].pc /= "idle"

\* the request came from the owner of the app named in its path, and that
\* app is the one version v belongs to (every version row of the model
\* belongs to ThisApp)
Authorized(req) == req.appId = ThisApp /\ GetAppById(req.appId, req.caller)

\* C39: a promote request changes the status of a version, or the
\* prod_version of the app the version belongs to, only if the version
\* belongs to the app named in the path and the caller owns that app.
C39_PromoteAuthorization ==
    [][(\/ app'.prod_version /= app.prod_version
        \/ \E v \in Created : /\ versions'[v].status = "promoted"
                              /\ versions[v].status /= "promoted")
          => Authorized(request')]_vars

\* C40: a progress stream opened for a version whose stored status is
\* promoted ends at once: it never subscribes to the topic and waits.
C40_PromotedStreamEnds ==
    \A s \in DOMAIN streams :
        streams[s].status = "promoted"
          => streams[s].pc \notin {"Subscribing", "Loop"}

====
